---- MODULE Spec2Model ----
(***************************************************************************)
(* A model of the mzcrawler crawl engine (package http, WebCrawler).       *)
(* Strings are sequences of one-character strings, so that the string      *)
(* functions of the code (TrimSuffix, HasPrefix, HasSuffix, url.Parse,     *)
(* URL.String) are computed and not assumed.                               *)
(***************************************************************************)
EXTENDS Integers, Sequences, FiniteSets, Bags, TLC

\* -------------------------------------------------------------------------
\* Strings (package strings)
\* -------------------------------------------------------------------------

\* strings.HasPrefix
HasPrefix(s, p) == Len(s) >= Len(p) /\ SubSeq(s, 1, Len(p)) = p

\* strings.HasSuffix
HasSuffix(s, p) == Len(s) >= Len(p) /\ SubSeq(s, Len(s) - Len(p) + 1, Len(s)) = p

\* strings.TrimSuffix: removes one trailing occurrence of p
TrimSuffix(s, p) == IF HasSuffix(s, p) THEN SubSeq(s, 1, Len(s) - Len(p)) ELSE s

\* unicode.ToLower on the letters the model uses
ToLowerChar(c) ==
    CASE c = "M" -> "m"
      [] c = "C" -> "c"
      [] c = "H" -> "h"
      [] OTHER -> c

\* strings.ToLower
ToLower(s) == [i \in 1..Len(s) |-> ToLowerChar(s[i])]

\* strings.EqualFold: equality under case folding
EqualFold(s, t) == ToLower(s) = ToLower(t)

\* the first index >= from at which a character of set cs occurs, or Len(s)+1
IndexAny(s, cs, from) ==
    LET hits == {i \in from..Len(s) : s[i] \in cs}
    IN  IF hits = {} THEN Len(s) + 1
        ELSE CHOOSE i \in hits : \A j \in hits : i <= j

\* the suffix of s from index i on
From(s, i) == SubSeq(s, i, Len(s))

\* -------------------------------------------------------------------------
\* URLs (package net/url, as far as the crawler uses it)
\* -------------------------------------------------------------------------

Letters == {"a", "b", "c", "f", "h", "m", "s", "w", "x", "e", "C", "H", "M"}

\* url.getScheme: the scheme is a run of letters ended by ":"; a leading ":"
\* is an error; any other character first means there is no scheme.
GetScheme(s) ==
    LET stop == IndexAny(s, {c \in {s[i] : i \in 1..Len(s)} : c \notin Letters}, 1)
    IN  IF stop > Len(s) \/ s[stop] # ":"
          THEN [ok |-> TRUE, scheme |-> <<>>, rest |-> s]
        ELSE IF stop = 1
          THEN [ok |-> FALSE, scheme |-> <<>>, rest |-> s]
        ELSE [ok |-> TRUE, scheme |-> SubSeq(s, 1, stop - 1), rest |-> From(s, stop + 1)]

\* url.Parse: fragment, scheme, query, authority and path of a raw URL.
\* A host holding a space is rejected, as is a colon in the first path
\* segment of a URL that has no scheme.
Parse(raw) ==
    LET hash   == IndexAny(raw, {"#"}, 1)
        frag   == From(raw, hash + 1)
        nofrag == SubSeq(raw, 1, hash - 1)
        gs     == GetScheme(nofrag)
        qm     == IndexAny(gs.rest, {"?"}, 1)
        query  == From(gs.rest, qm + 1)
        rest   == SubSeq(gs.rest, 1, qm - 1)
        opaque == ~HasPrefix(rest, <<"/">>) /\ gs.scheme # <<>>
        seg    == SubSeq(rest, 1, IndexAny(rest, {"/"}, 1) - 1)
        colon  == ~HasPrefix(rest, <<"/">>) /\ gs.scheme = <<>>
                    /\ IndexAny(seg, {":"}, 1) <= Len(seg)
        auth   == ~opaque /\ HasPrefix(rest, <<"/", "/">>)
                    /\ (gs.scheme # <<>> \/ ~HasPrefix(rest, <<"/", "/", "/">>))
        slash  == IndexAny(rest, {"/"}, 3)
        host   == IF auth THEN SubSeq(rest, 3, slash - 1) ELSE <<>>
        path   == IF opaque THEN <<>> ELSE IF auth THEN From(rest, slash) ELSE rest
    IN  [ok       |-> gs.ok /\ ~colon /\ IndexAny(host, {" "}, 1) > Len(host),
         Scheme   |-> ToLower(gs.scheme),
         Opaque   |-> IF opaque THEN rest ELSE <<>>,
         Host     |-> host,
         Path     |-> path,
         RawQuery |-> query,
         Fragment |-> frag]

\* URL.EscapedPath: "?" and "#" and " " cannot stand in a path
EscapeChar(c) ==
    CASE c = "?" -> <<"%", "3", "F">>
      [] c = "#" -> <<"%", "2", "3">>
      [] c = " " -> <<"%", "2", "0">>
      [] OTHER -> <<c>>

RECURSIVE EscapedPath(_)
EscapedPath(p) == IF p = <<>> THEN <<>> ELSE EscapeChar(Head(p)) \o EscapedPath(Tail(p))

\* URL.String: scheme ":" ["//" host] path ["?" query] ["#" fragment]; a
\* path that does not start with "/" gets one when there is a host.
URLString(u) ==
    LET scheme == IF u.Scheme # <<>> THEN u.Scheme \o <<":">> ELSE <<>>
        path   == EscapedPath(u.Path)
        body   == IF u.Opaque # <<>> THEN u.Opaque
                  ELSE (IF (u.Scheme # <<>> \/ u.Host # <<>>)
                           /\ (u.Host # <<>> \/ u.Path # <<>>)
                          THEN <<"/", "/">> \o u.Host ELSE <<>>)
                       \o (IF path # <<>> /\ path[1] # "/" /\ u.Host # <<>>
                             THEN <<"/">> ELSE <<>>)
                       \o path
        query  == IF u.RawQuery # <<>> THEN <<"?">> \o u.RawQuery ELSE <<>>
        frag   == IF u.Fragment # <<>> THEN <<"#">> \o EscapedPath(u.Fragment) ELSE <<>>
    IN  scheme \o body \o query \o frag

\* domain: the last two "."-separated labels of the host, or the whole host
\* when strings.SplitAfter(host, ".") has at most two parts.
domain(baseurl) ==
    LET host == baseurl.Host
        dots == {i \in 1..Len(host) : host[i] = "."}
    IN  IF Cardinality(dots) + 1 <= 2 THEN host
        ELSE LET last == CHOOSE i \in dots : \A j \in dots : j <= i
                 prev == CHOOSE i \in dots \ {last} : \A j \in dots \ {last} : j <= i
             IN  From(host, prev + 1)

\* isReletivePath
isReletivePath(path) == HasPrefix(path, <<"/">>) \/ HasPrefix(path, <<".", ".">>)

\* -------------------------------------------------------------------------
\* The site that is crawled: what the HTTP server answers
\* -------------------------------------------------------------------------

\* "h://m.c" and "h://m.c/": the seed URLs given to NewWebCrawler
SeedPlain == <<"h", ":", "/", "/", "m", ".", "c">>
SeedSlash == SeedPlain \o <<"/">>

PageA == SeedPlain \o <<"/", "a">>
PageB == SeedPlain \o <<"/", "b">>
External == <<"h", ":", "/", "/", "f", ".", "c", "/", "x">>
SubDomain == <<"/", "/", "s", ".", "m", ".", "c">>
PageSub == <<"h", ":">> \o SubDomain

\* an html.Node: its Type ("element" or "text"), its Data (the tag name of an
\* element, the text of a text node), its attributes and its children
Node(type, data, attr, kids) == [Type |-> type, Data |-> data, Attr |-> attr, Kids |-> kids]

\* an attribute key="val"
Attribute(key, val) == [Key |-> key, Val |-> val]

\* an anchor element <a href="val">
A(val) == Node("element", "a", <<Attribute("href", val)>>, <<>>)

\* The fixture of TestCrawler: every page answers the same body, which links
\* to the page itself, to a sibling and to another host.
SiteSame ==
    LET body == <<A(<<"/">>), A(<<"/", "a">>), A(External)>>
    IN  [seed |-> SeedPlain, pages |-> (SeedPlain :> body) @@ (PageA :> body), down |-> {}]

\* A site whose pages carry different links: the seed links to /a and to
\* another host, /a links to /b and to a subdomain, /b links back to the seed.
SiteChain ==
    [seed |-> SeedPlain,
     pages |-> (SeedPlain :> <<A(<<"/", "a">>), A(External)>>)
               @@ (PageA :> <<A(<<"/", "b">>), A(SubDomain)>>)
               @@ (PageB :> <<A(<<"/">>)>>),
     down |-> {}]

\* A site crawled from a seed with a trailing slash, whose seed page links to
\* a subdomain, and the subdomain back to it.
SiteSub ==
    [seed |-> SeedSlash,
     pages |-> (SeedPlain :> <<A(SubDomain), A(External)>>)
               @@ (PageSub :> <<A(SeedSlash)>>),
     down |-> {}]

\* A site whose seed page carries the same link twice.
SiteDup ==
    [seed |-> SeedPlain,
     pages |-> (SeedPlain :> <<A(<<"/", "a">>), A(<<"/", "a", "/">>)>>)
               @@ (PageA :> <<A(<<"/">>)>>),
     down |-> {}]

\* A site crawled from a seed with a trailing slash, whose seed page links to
\* itself as "/".
SiteSlash == [seed |-> SeedSlash, pages |-> (SeedPlain :> <<A(<<"/">>)>>), down |-> {}]

\* A site whose seed page is down.
SiteDown ==
    [seed |-> SeedPlain, pages |-> (SeedPlain :> <<A(<<"/", "a">>)>>), down |-> {SeedPlain}]

Sites == {SiteSame, SiteChain, SiteSub, SiteDup, SiteSlash, SiteDown}

\* the server locates a page by its path, "/" and "" being the same page
Canonical(req) == TrimSuffix(req, <<"/">>)

\* the document the server answers for a request; an unknown path gets a
\* body without anchors
Document(s, req) ==
    IF Canonical(req) \in DOMAIN s.pages THEN s.pages[Canonical(req)] ELSE <<>>

\* -------------------------------------------------------------------------
\* The crawler
\* -------------------------------------------------------------------------

\* the largest number of transport errors the network produces by itself
\* during one crawl, beyond the pages that are down
MaxErrors == 1

\* the default of the -n option
defaultConcurrenctClients == 5

VARIABLES
    urlstr,            \* c.urlstr: the seed as given
    url,               \* c.url: the parsed seed
    c_domain,          \* c.domain
    FollowSubDomains,  \* c.FollowSubDomains
    concurrent,        \* the -n option handed to NewWebCrawler
    site,              \* the site crawled
    flaky,             \* how many transport errors the network may inject
    nerr,              \* how many it has injected
    sitemap,           \* c.sitemap
    sitemapMu,         \* c.sitemapMu: TRUE when locked
    wg,                \* the WaitGroup counter of Crawl
    crawl,             \* where Crawl is: "init", "running", "wait", "returned", "error"
    tasks,             \* the bag of goroutines running crawlURL and worker
    gets,              \* history: the bag of URLs an HTTP GET was issued for
    won,               \* history: the bag of URLs newURLFound returned true for
    lost,              \* history: the bag of URLs newURLFound returned false for
    commits,           \* history: the bag of keys whose final list was stored
    failed,            \* history: the calls of crawlURL that failed: for which URL, and
                       \* whether it was the call Crawl makes itself
    probe              \* a single call of crawlURL's walker, of normalizeURL and of
                       \* shouldFollow that is looked at by itself; unused in a crawl

vars == <<urlstr, url, c_domain, FollowSubDomains, concurrent, site, flaky, nerr,
          sitemap, sitemapMu, wg, crawl, tasks, gets, won, lost, commits, failed, probe>>

config == <<urlstr, url, c_domain, FollowSubDomains, concurrent, site, flaky, probe>>

\* strings.TrimSpace
RECURSIVE TrimSpace(_)
TrimSpace(s) ==
    IF s = <<>> THEN s
    ELSE IF Head(s) = " " THEN TrimSpace(Tail(s))
    ELSE IF s[Len(s)] = " " THEN TrimSpace(SubSeq(s, 1, Len(s) - 1))
    ELSE s

\* a build whose loop over the attributes is left at the first href, sent
\* or not
RECURSIVE AnchorHrefBreaks(_)
AnchorHrefBreaks(attr) ==
    IF attr = <<>> THEN <<>>
    ELSE IF Head(attr).Key = "href"
           THEN IF TrimSpace(Head(attr).Val) # <<>>
                     /\ ~HasPrefix(TrimSpace(Head(attr).Val), <<"#">>)
                  THEN <<TrimSpace(Head(attr).Val)>>
                ELSE <<>>
    ELSE AnchorHrefBreaks(Tail(attr))

\* the inner loop of crawlURL's walk over the attributes of an anchor: the
\* first href that is neither empty nor a fragment is sent, and then the
\* loop is left
RECURSIVE AnchorHref(_)
AnchorHref(attr) ==
    IF attr = <<>> THEN <<>>
    ELSE IF Head(attr).Key = "href"
              /\ TrimSpace(Head(attr).Val) # <<>>
              /\ ~HasPrefix(TrimSpace(Head(attr).Val), <<"#">>)
           THEN <<TrimSpace(Head(attr).Val)>>
    ELSE AnchorHref(Tail(attr))

\* the values crawlURL's walker fn sends on urlCh for a list of sibling
\* nodes: for each node what the node itself gives, then what its children
\* give, then the next sibling
RECURSIVE ExtractHrefs(_)
ExtractHrefs(nodes) ==
    IF nodes = <<>> THEN <<>>
    ELSE LET n == Head(nodes)
         IN  (IF n.Type = "element" /\ n.Data = "a" THEN AnchorHref(n.Attr) ELSE <<>>)
             \o ExtractHrefs(n.Kids)
             \o ExtractHrefs(Tail(nodes))

\* normalizeURL
normalizeURL(u0) ==
    LET u == TrimSuffix(u0, <<"/">>)
    IN  IF u = <<>>
          THEN URLString([url EXCEPT !.Path = <<>>, !.RawQuery = <<>>, !.Fragment = <<>>])
        ELSE IF HasPrefix(u, <<"/", "/">>)
          THEN url.Scheme \o <<":">> \o u
        ELSE IF isReletivePath(u)
          THEN URLString([url EXCEPT !.Path = u, !.RawQuery = <<>>, !.Fragment = <<>>])
        ELSE u

\* shouldFollow
shouldFollow(baseurl) ==
    LET u == Parse(baseurl)
    IN  IF ~u.ok THEN FALSE
        ELSE IF ~FollowSubDomains THEN EqualFold(u.Host, c_domain)
        ELSE HasSuffix(u.Host, c_domain)

\* no single call is looked at
NoProbe == [pc |-> "none"]

\* NewWebCrawler, and the flags main sets on the crawler
Init ==
    /\ site \in Sites
    /\ urlstr = site.seed
    /\ url = Parse(urlstr)
    /\ c_domain = domain(url)
    /\ FollowSubDomains \in BOOLEAN
    /\ concurrent \in {1, defaultConcurrenctClients}
    /\ flaky \in 0..MaxErrors
    /\ nerr = 0
    /\ sitemap = << >>
    /\ sitemapMu = FALSE
    /\ wg = 0
    /\ crawl = "init"
    /\ tasks = EmptyBag
    /\ gets = EmptyBag
    /\ won = EmptyBag
    /\ lost = EmptyBag
    /\ commits = EmptyBag
    /\ failed = {}
    /\ probe = NoProbe

One(x) == SetToBag({x})

\* the bag of goroutines with t replaced by t2
Replace(t, t2) == (tasks (-) One(t)) (+) One(t2)

Running == BagToSet(tasks)

\* A goroutine that is about to call crawlURL for urlstr u. root tells the
\* call Crawl makes itself from the ones made by the goroutines of worker;
\* kids is history: the URLs this call of worker started goroutines for.
NewTask(u, root) ==
    [u |-> u, root |-> root, pc |-> "spawned", hrefs |-> <<>>, sent |-> 0,
     closed |-> FALSE, urls |-> {}, res |-> FALSE, kids |-> EmptyBag]

\* Crawl is entered: it calls crawlURL(c.url), then worker(&wg, c.urlstr, urlCh)
CrawlBegin ==
    /\ crawl = "init"
    /\ crawl' = "running"
    /\ tasks' = tasks (+) One(NewTask(urlstr, TRUE))
    /\ UNCHANGED <<config, nerr, sitemap, sitemapMu, wg, gets, won, lost, commits, failed>>

\* crawlURL: c.HTTPClient.Get(baseurl.String()) is issued. Both callers pass
\* c.url as baseurl.
GetStart(t) ==
    /\ t.pc = "spawned"
    /\ tasks' = Replace(t, [t EXCEPT !.pc = "fetching"])
    /\ gets' = gets (+) One(URLString(url))
    /\ UNCHANGED <<config, nerr, sitemap, sitemapMu, wg, crawl, won, lost, commits, failed>>

\* the worker function, or the goroutine around it, returns: Crawl goes on to
\* wg.Wait, a goroutine runs its deferred wg.Done
Returned(t) ==
    /\ crawl' = IF t.root THEN "wait" ELSE crawl
    /\ wg' = IF t.root THEN wg ELSE wg - 1

\* a build in which Crawl goes on to wg.Wait when crawlURL failed
CrawlOnErrorGoesOn == "wait"

\* Crawl: if err != nil { return nil, err }
CrawlOnError == "error"

\* crawlURL returns an error (the GET failed, or html.Parse did): Crawl
\* returns (nil, err); a goroutine does not call worker and ends.
GetFail(t) ==
    /\ t.pc = "fetching"
    /\ \/ Canonical(URLString(url)) \in site.down /\ nerr' = nerr
       \/ nerr < flaky /\ nerr' = nerr + 1
    /\ tasks' = tasks (-) One(t)
    /\ crawl' = IF t.root THEN CrawlOnError ELSE crawl
    /\ wg' = IF t.root THEN wg ELSE wg - 1
    /\ failed' = failed \cup {[u |-> t.u, root |-> t.root]}
    /\ UNCHANGED <<config, sitemap, sitemapMu, gets, won, lost, commits>>

\* crawlURL returns the channel: the walker goroutine is started on the
\* parsed document, and worker is called
GetOK(t) ==
    /\ t.pc = "fetching"
    /\ Canonical(URLString(url)) \notin site.down
    /\ tasks' = Replace(t, [t EXCEPT !.pc = "claim",
                                     !.hrefs = ExtractHrefs(Document(site, URLString(url)))])
    /\ UNCHANGED <<config, nerr, sitemap, sitemapMu, wg, crawl, gets, won, lost, commits, failed>>

\* a build in which the lock is never waited for
CanLockAlways == TRUE

\* sync.Mutex.Lock can return
CanLock == ~sitemapMu

\* newURLFound: c.sitemapMu.Lock(); _, ok := c.sitemap[urlstr]
NewURLCheck(t) ==
    /\ t.pc = "claim"
    /\ CanLock
    /\ sitemapMu' = TRUE
    /\ tasks' = Replace(t, [t EXCEPT !.pc = "checked", !.res = (t.u \notin DOMAIN sitemap)])
    /\ UNCHANGED <<config, nerr, sitemap, wg, crawl, gets, won, lost, commits, failed>>

\* the worker has returned; its walker goroutine stays while it has values
\* to send or its channel to close
Leave(t) ==
    IF t.closed THEN tasks (-) One(t) ELSE Replace(t, [t EXCEPT !.pc = "returned"])

\* a build in which worker does not return when newURLFound gave false
NewURLReturnGoesOn(t) ==
    /\ t.pc = "checked"
    /\ sitemapMu' = FALSE
    /\ tasks' = Replace(t, [t EXCEPT !.pc = "range"])
    /\ IF t.res
         THEN /\ sitemap' = (t.u :> <<>>) @@ sitemap
              /\ won' = won (+) One(t.u)
              /\ UNCHANGED lost
         ELSE /\ lost' = lost (+) One(t.u)
              /\ UNCHANGED <<sitemap, won>>
    /\ UNCHANGED <<config, nerr, wg, crawl, gets, commits, failed>>

\* newURLFound: a key that is absent is stored with an empty list and true
\* is returned, else false; the deferred Unlock runs. worker returns at
\* once when it got false.
NewURLReturn(t) ==
    /\ t.pc = "checked"
    /\ sitemapMu' = FALSE
    /\ IF t.res
         THEN /\ sitemap' = (t.u :> <<>>) @@ sitemap
              /\ won' = won (+) One(t.u)
              /\ tasks' = Replace(t, [t EXCEPT !.pc = "range"])
              /\ UNCHANGED <<lost, wg, crawl>>
         ELSE /\ lost' = lost (+) One(t.u)
              /\ tasks' = Leave(t)
              /\ Returned(t)
              /\ UNCHANGED <<sitemap, won>>
    /\ UNCHANGED <<config, nerr, gets, commits, failed>>

\* a build in which the goroutine is started without wg.Add(1)
AddForgotten(n) == n

\* wg.Add(1)
Add(n) == n + 1

\* worker, one round of "for u := range urlCh": the walker sends the next
\* href, worker normalizes it, records it in urls, and starts a goroutine
\* for it when it is to be followed
Recv(t) ==
    /\ t.pc = "range"
    /\ t.sent < Len(t.hrefs)
    /\ LET u == normalizeURL(t.hrefs[t.sent + 1])
           t2 == [t EXCEPT !.sent = t.sent + 1, !.urls = t.urls \cup {u}]
       IN  IF shouldFollow(u)
             THEN /\ wg' = Add(wg)
                  /\ tasks' = Replace(t, [t2 EXCEPT !.kids = t.kids (+) One(u)])
                                 (+) One(NewTask(u, FALSE))
             ELSE /\ wg' = wg
                  /\ tasks' = Replace(t, t2)
    /\ UNCHANGED <<config, nerr, sitemap, sitemapMu, crawl, gets, won, lost, commits, failed>>

\* crawlURL's walker has walked the document: close(urlCh)
WalkerClose(t) ==
    /\ t.pc \notin {"spawned", "fetching"}
    /\ ~t.closed
    /\ t.sent = Len(t.hrefs)
    /\ tasks' = IF t.pc = "returned" THEN tasks (-) One(t)
                ELSE Replace(t, [t EXCEPT !.closed = TRUE])
    /\ UNCHANGED <<config, nerr, sitemap, sitemapMu, wg, crawl, gets, won, lost, commits, failed>>

\* the sequences that hold every element of set S once
Orders(S) ==
    {s \in [1..Cardinality(S) -> S] : \A i, j \in 1..Cardinality(S) : s[i] = s[j] => i = j}

\* a build in which worker stores the list without c.sitemapMu.Lock()
CommitLockNotTaken(t) ==
    /\ t.pc = "range"
    /\ t.closed
    /\ tasks' = Replace(t, [t EXCEPT !.pc = "commitLocked"])
    /\ UNCHANGED <<config, nerr, sitemap, sitemapMu, wg, crawl, gets, won, lost, commits, failed>>

\* worker: the range loop ends on the closed channel, the list is built from
\* the keys of urls in the order the map yields them, and c.sitemapMu.Lock()
\* is taken
CommitLock(t) ==
    /\ t.pc = "range"
    /\ t.closed
    /\ CanLock
    /\ sitemapMu' = TRUE
    /\ tasks' = Replace(t, [t EXCEPT !.pc = "commitLocked"])
    /\ UNCHANGED <<config, nerr, sitemap, wg, crawl, gets, won, lost, commits, failed>>

\* worker: c.sitemap[urlstr] = sitemap; c.sitemapMu.Unlock(); return
CommitWrite(t) ==
    /\ t.pc = "commitLocked"
    /\ \E l \in Orders(t.urls) : sitemap' = [sitemap EXCEPT ![t.u] = l]
    /\ sitemapMu' = FALSE
    /\ commits' = commits (+) One(t.u)
    /\ tasks' = Leave(t)
    /\ Returned(t)
    /\ UNCHANGED <<config, nerr, gets, won, lost, failed>>

\* a build in which Crawl does not wait for the goroutines
WaitSkipped == TRUE

\* wg.Wait() can return
WaitDone == wg = 0

\* Crawl: wg.Wait(); return c.sitemap, nil
CrawlReturn ==
    /\ crawl = "wait"
    /\ WaitDone
    /\ crawl' = "returned"
    /\ UNCHANGED <<config, nerr, sitemap, sitemapMu, wg, tasks, gets, won, lost, commits, failed>>

Next ==
    \/ CrawlBegin
    \/ \E t \in Running : GetStart(t)
    \/ \E t \in Running : GetFail(t)
    \/ \E t \in Running : GetOK(t)
    \/ \E t \in Running : NewURLCheck(t)
    \/ \E t \in Running : NewURLReturn(t)
    \/ \E t \in Running : Recv(t)
    \/ \E t \in Running : WalkerClose(t)
    \/ \E t \in Running : CommitLock(t)
    \/ \E t \in Running : CommitWrite(t)
    \/ CrawlReturn

Spec == Init /\ [][Next]_vars

\* -------------------------------------------------------------------------
\* One call of the walker, and one round of worker's loop, by themselves
\* -------------------------------------------------------------------------

\* seeds: two labels, three labels, one label, a port, and the seed of
\* TestNormalizeURL with a path, a query and a fragment
SeedWww == <<"h", ":", "/", "/", "w", ".", "m", ".", "c">>
SeedOneLabel == <<"h", ":", "/", "/", "m">>
SeedPort == <<"h", ":", "/", "/", "m", ".", "c", ":", "8">>
SeedPath == <<"h", ":", "/", "/", "m", ".", "c", "/", "p", "?", "q", "#", "f">>

FnSeeds == {SeedPlain, SeedWww, SeedOneLabel, SeedPort, SeedPath}

\* hrefs as a page may carry them
FnHrefs ==
    {<<>>, <<"/">>, <<"/", "a">>, <<"/", "a", "/">>, <<"/", "a", "/", "/">>,
     <<".", ".", "/", "b">>,
     <<"/", "/", "s", ".", "m", ".", "c", "/", "b">>,
     <<"h", ":", "/", "/", "m", ".", "c", "/", "b">>,
     <<"h", ":", "/", "/", "M", ".", "c", "/", "a">>,
     <<"h", ":", "/", "/", "x", "m", ".", "c">>,
     <<"h", ":", "/", "/", "s", ".", "m", ".", "c", "/", "a">>,
     <<"h", ":", "/", "/", "w", ".", "m", ".", "c", "/", "a">>,
     <<"h", ":", "/", "/", "m", ".", "c", ":", "8", "/", "a">>,
     <<"h", ":", "/", "/", "m", "/", "a">>,
     <<"h", ":", "/", "/", "m", " ", "c">>,
     External}

\* the pages a worker may run for: the seed, or a page that is followed
FnPages == FnSeeds \cup {PageSub}

\* <a href="/a"><a href="/b"></a>text</a><a href="/c">
DocNested ==
    <<Node("element", "a", <<Attribute("href", <<"/", "a">>)>>,
           <<A(<<"/", "b">>), Node("text", "a", <<>>, <<>>)>>),
      A(<<"/", "c">>)>>

\* <svg href="/x"><a title="t" href=" /a " xlink:href="/b"></a></svg>: the
\* parser gives both href and xlink:href the key "href" (the latter in the
\* namespace xlink, which the walker does not look at)
DocInside ==
    <<Node("element", "svg", <<Attribute("href", <<"/", "x">>)>>,
           <<Node("element", "a",
                  <<Attribute("title", <<"t">>), Attribute("href", <<" ", "/", "a", " ">>),
                    Attribute("href", <<"/", "b">>)>>, <<>>)>>)>>

\* <a href="#"></a><a></a><a href=" "></a><a href="/a"></a>
DocDropped == <<A(<<"#">>), Node("element", "a", <<>>, <<>>), A(<<" ">>), A(<<"/", "a">>)>>

\* <svg><a href="#t" xlink:href="/b"></a></svg>
DocSecondHref ==
    <<Node("element", "svg", <<>>,
           <<Node("element", "a",
                  <<Attribute("href", <<"#", "t">>), Attribute("href", <<"/", "b">>)>>,
                  <<>>)>>)>>

\* <svg><a href="" xlink:href="/b"></a><a href="/c"></a></svg>
DocEmptyFirst ==
    <<Node("element", "svg", <<>>,
           <<Node("element", "a",
                  <<Attribute("href", <<>>), Attribute("href", <<"/", "b">>)>>, <<>>),
             A(<<"/", "c">>)>>)>>

FnDocs == {<<>>, DocNested, DocInside, DocDropped, DocSecondHref, DocEmptyFirst}

\* a crawler as NewWebCrawler builds it, and either a document handed to
\* crawlURL's walker or an href handed to worker's loop
FnInit ==
    /\ urlstr \in FnSeeds
    /\ url = Parse(urlstr)
    /\ c_domain = domain(url)
    /\ FollowSubDomains \in BOOLEAN
    /\ concurrent = defaultConcurrenctClients
    /\ site = SiteSame
    /\ flaky = 0
    /\ nerr = 0
    /\ sitemap = <<>>
    /\ sitemapMu = FALSE
    /\ wg = 0
    /\ crawl = "init"
    /\ tasks = EmptyBag
    /\ gets = EmptyBag
    /\ won = EmptyBag
    /\ lost = EmptyBag
    /\ commits = EmptyBag
    /\ failed = {}
    /\ \/ \E d \in FnDocs : probe = [pc |-> "doc", doc |-> d, hrefs |-> <<>>]
       \/ \E p \in FnPages, h \in FnHrefs :
              /\ p = urlstr \/ shouldFollow(p)
              /\ probe = [pc |-> "href", page |-> p, href |-> h, norm |-> <<>>, follow |-> FALSE]

\* crawlURL's walker: fn(doc), every value sent is received
ProbeWalker ==
    /\ probe.pc = "doc"
    /\ probe' = [probe EXCEPT !.pc = "walked", !.hrefs = ExtractHrefs(probe.doc)]
    /\ UNCHANGED <<urlstr, url, c_domain, FollowSubDomains, concurrent, site, flaky, nerr,
                   sitemap, sitemapMu, wg, crawl, tasks, gets, won, lost, commits, failed>>

\* worker, one round of the loop for the page probe.page:
\* u = c.normalizeURL(u) and c.shouldFollow(u)
ProbeWorker ==
    /\ probe.pc = "href"
    /\ probe' = [probe EXCEPT !.pc = "followed",
                              !.norm = normalizeURL(probe.href),
                              !.follow = shouldFollow(normalizeURL(probe.href))]
    /\ UNCHANGED <<urlstr, url, c_domain, FollowSubDomains, concurrent, site, flaky, nerr,
                   sitemap, sitemapMu, wg, crawl, tasks, gets, won, lost, commits, failed>>

FnNext == ProbeWalker \/ ProbeWorker

FnSpec == FnInit /\ [][FnNext]_vars

\* -------------------------------------------------------------------------
\* What the properties below speak of
\* -------------------------------------------------------------------------

Range(s) == {s[i] : i \in 1..Len(s)}

\* the distinct canonical links found on the page the server holds for k
LinksOn(k) == {normalizeURL(h) : h \in Range(ExtractHrefs(Document(site, k)))}

\* how many goroutines of the bag satisfy P
RECURSIVE SumCopies(_)
SumCopies(S) ==
    IF S = {} THEN 0
    ELSE LET x == CHOOSE y \in S : TRUE IN CopiesIn(x, tasks) + SumCopies(S \ {x})

NumTasks(P(_)) == SumCopies({t \in Running : P(t)})

\* every URL a goroutine was ever started for
Spawned ==
    {t.u : t \in Running} \cup BagToSet(won) \cup BagToSet(lost) \cup {f.u : f \in failed}

\* the pages reached from the seed by following the links that are in scope
RECURSIVE Closure(_)
Closure(R) ==
    LET next == R \cup {Canonical(n) : n \in {m \in UNION {LinksOn(p) : p \in R} : shouldFollow(m)}}
    IN  IF next = R THEN R ELSE Closure(next)

Reachable == Closure({Canonical(urlstr)})

\* different pages of the site carry different links
DistinctPages == \A p, q \in DOMAIN site.pages : p # q => site.pages[p] # site.pages[q]

\* -------------------------------------------------------------------------
\* Properties
\* -------------------------------------------------------------------------

\* C1: a GET is in flight only for a URL whose claim was won before, and no
\* URL is requested more than once during a crawl.
C1_ClaimPrecedesFetch ==
    /\ \A t \in Running : t.pc = "fetching" => CopiesIn(t.u, won) > 0
    /\ \A r \in BagToSet(gets) : CopiesIn(r, gets) <= 1

\* C2: when Crawl has returned from a site whose pages differ, no fetch
\* having failed, the list stored under every key holds exactly the distinct
\* canonical links of that key's own page.
C2_ListIsLinksOfPage ==
    (crawl = "returned" /\ DistinctPages /\ nerr = 0) =>
        \A k \in DOMAIN sitemap :
            /\ Range(sitemap[k]) = LinksOn(k)
            /\ Len(sitemap[k]) = Cardinality(LinksOn(k))

\* C3: when Crawl has returned and no transport error occurred, the keys of
\* the Sitemap are exactly the in-scope pages reachable from the seed, each
\* once.
C3_KeysAreReachable ==
    (crawl = "returned" /\ nerr = 0) =>
        /\ {Canonical(k) : k \in DOMAIN sitemap} = Reachable
        /\ Cardinality(DOMAIN sitemap) = Cardinality(Reachable)

\* nothing of the crawl is left to run: the WaitGroup is drained, the only
\* goroutines left are walkers whose worker has returned, every key has had
\* its final list stored, and the lock is free
Quiescent ==
    /\ wg = 0
    /\ \A t \in Running : t.pc = "returned"
    /\ \A k \in DOMAIN sitemap : CopiesIn(k, commits) >= 1
    /\ ~sitemapMu

\* C4: every step that leaves Crawl returned leaves it with nothing of the
\* crawl running or pending and every claimed key committed, and once Crawl
\* has returned no step changes the Sitemap.
C4_ReturnAfterAllTasks ==
    [][/\ crawl' = "returned" => Quiescent'
       /\ crawl = "returned" => sitemap' = sitemap]_vars

\* C4 witness: Crawl has returned from a crawl that spawned goroutines, some
\* of which won a claim and some of which lost one.
C4_Witness ==
    /\ crawl = "returned"
    /\ Cardinality(DOMAIN sitemap) >= 2
    /\ lost # EmptyBag

\* the callers of newURLFound(u) that got true, and those that got false
Trues(u) == CopiesIn(u, won) + NumTasks(LAMBDA t : t.pc = "checked" /\ t.res /\ t.u = u)
Falses(u) == CopiesIn(u, lost) + NumTasks(LAMBDA t : t.pc = "checked" /\ ~t.res /\ t.u = u)

\* C5: after every step, for every URL that newURLFound was called for,
\* exactly one caller got true; and a call that returns false leaves the
\* Sitemap as it was.
C5_ClaimOnce ==
    [][/\ \A u \in Spawned' : Trues(u)' + Falses(u)' > 0 => Trues(u)' = 1
       /\ lost' # lost => sitemap' = sitemap]_vars

\* C5 witness: two callers of newURLFound for the same URL at once: one has
\* found the key absent and holds the lock, the other waits for the lock.
C5_Witness ==
    \E t1, t2 \in Running :
        /\ t1.u = t2.u
        /\ t1.pc = "checked" /\ t1.res
        /\ t2.pc = "claim"

\* C6: when Crawl has ended and the fetch made for a discovered page failed,
\* Crawl has succeeded and the page is a key of the Sitemap, with an empty
\* list unless another goroutine claimed the same URL.
C6_FetchFailureIsolation ==
    crawl \in {"returned", "error"} =>
        \A f \in failed :
            ~f.root =>
                /\ crawl = "returned"
                /\ f.u \in DOMAIN sitemap
                /\ CopiesIn(f.u, won) = 0 => sitemap[f.u] = <<>>

\* the call of crawlURL that Crawl makes for the seed failed
SeedFetchFailed == [u |-> urlstr, root |-> TRUE] \in failed

InFlight == NumTasks(LAMBDA t : t.pc = "fetching")

\* C8: the fetches in flight never exceed the -n option.
C8_InFlightBounded == InFlight <= concurrent

\* no goroutine was started for a link that is out of scope, no such link is
\* a key of the Sitemap, and none was requested
NotRecursed ==
    /\ \A x \in Spawned \ {urlstr} : shouldFollow(x)
    /\ \A k \in DOMAIN sitemap \ {urlstr} : shouldFollow(k)
    /\ \A r \in BagToSet(gets) : r = URLString(url) \/ shouldFollow(r)

\* C9: no goroutine is started for a link that is out of scope, no such link
\* is requested or becomes a key, and when Crawl has returned without a
\* failed fetch every out-of-scope link of a key's page is in that key's list.
C9_OutOfScopeRecordedNotRecursed ==
    /\ NotRecursed
    /\ (crawl = "returned" /\ nerr = 0) =>
           \A k \in DOMAIN sitemap :
               \A x \in LinksOn(k) : ~shouldFollow(x) => x \in Range(sitemap[k])

\* the canonical links of the page the server holds for the seed
SeedLinks == LinksOn(URLString(url))

\* C10: when Crawl has returned from a site whose fetch results are fixed,
\* the Sitemap is one and the same whatever the interleaving was: its keys
\* and, as a set, the list of every key are determined by the site.
C10_SameSitemap ==
    (crawl = "returned" /\ flaky = 0) =>
        /\ DOMAIN sitemap = {urlstr} \cup {n \in SeedLinks : shouldFollow(n)}
        /\ \A k \in DOMAIN sitemap : Range(sitemap[k]) = SeedLinks

\* C10 witness: Crawl has returned from a crawl with fixed fetch results in
\* which three goroutines lost the claim of one URL to a fourth.
C10_Witness ==
    /\ crawl = "returned"
    /\ flaky = 0
    /\ \E u \in BagToSet(lost) : CopiesIn(u, lost) >= 3 /\ CopiesIn(u, won) = 1

\* C11: every key of the Sitemap is absolute and has no trailing slash, no
\* two keys are the same page, and no page is requested twice.
C11_KeysAreCanonical ==
    /\ \A k \in DOMAIN sitemap : Parse(k).Scheme # <<>> /\ ~HasSuffix(k, <<"/">>)
    /\ \A k1, k2 \in DOMAIN sitemap : Canonical(k1) = Canonical(k2) => k1 = k2

\* C15: a call of worker starts at most one goroutine for a URL, however
\* often the page carries it, and its list holds every link once.
C15_OneChildPerLink ==
    /\ \A t \in Running : \A u \in BagToSet(t.kids) : CopiesIn(u, t.kids) <= 1
    /\ \A k \in DOMAIN sitemap :
           \A i, j \in 1..Len(sitemap[k]) : sitemap[k][i] = sitemap[k][j] => i = j

\* the walker of t has a value that nobody will receive: worker has returned
Blocked(t) == t.pc = "returned" /\ t.sent < Len(t.hrefs)

\* C16: when Crawl has returned, no walker goroutine is blocked on a send to
\* a channel whose worker has returned.
C16_NoProducerBlocked == crawl = "returned" => \A t \in Running : ~Blocked(t)

\* a goroutine that stores the list of u in this step
Commits(u) == CopiesIn(u, commits') = CopiesIn(u, commits) + 1

\* C17: in every step the key set of the Sitemap only grows, a new key
\* starts with the empty list, an entry changes only by a commit, a key is
\* committed at most once and keeps its list from then on, and the goroutine
\* that commits a key is the one that got true from newURLFound for it.
C17_ForwardOnly ==
    [][/\ DOMAIN sitemap \subseteq DOMAIN sitemap'
       /\ \A u \in DOMAIN sitemap' \ DOMAIN sitemap :
              sitemap'[u] = <<>> /\ CopiesIn(u, commits') = 0
       /\ \A u \in DOMAIN sitemap :
              /\ sitemap'[u] # sitemap[u] => Commits(u)
              /\ CopiesIn(u, commits) >= 1 =>
                     sitemap'[u] = sitemap[u] /\ CopiesIn(u, commits') = 1
              /\ Commits(u) =>
                     /\ CopiesIn(u, won) = 1
                     /\ \E t \in Running : t.u = u /\ t.pc = "commitLocked" /\ t.res
                     /\ \A t \in Running : (t.u = u /\ t.pc = "commitLocked") => t.res
       ]_vars

\* C17 witness: a key has its final list, stored by the goroutine that won
\* its claim, while other goroutines for the same URL lost the claim.
C17_Witness ==
    \E u \in DOMAIN sitemap :
        /\ CopiesIn(u, commits) = 1
        /\ sitemap[u] # <<>>
        /\ CopiesIn(u, lost) >= 1

\* the goroutines that are between Lock and Unlock of sitemapMu
Holders == NumTasks(LAMBDA t : t.pc \in {"checked", "commitLocked"})

\* C18: the lock is held exactly while one goroutine is between the Lock and
\* the Unlock of newURLFound or of the commit; the holder's next step is the
\* map write that releases the lock, so no fetch, parse or receive of the
\* holder happens under the lock; and the Sitemap is read or written only by
\* a step that holds the lock.
C18_LockOnlyForMap ==
    [][/\ Holders' <= 1
       /\ sitemapMu' <=> Holders' = 1
       /\ \A h \in Running :
              (h.pc \in {"checked", "commitLocked"} /\ sitemapMu') =>
                  CopiesIn(h, tasks') = CopiesIn(h, tasks)
       /\ sitemap' # sitemap => sitemapMu /\ ~sitemapMu'
       /\ \A t \in Running' :
              (t.pc = "checked" /\ CopiesIn(t, tasks') > CopiesIn(t, tasks)) =>
                  ~sitemapMu /\ sitemapMu'
       ]_vars

\* C18 witness: one goroutine holds the lock for its commit while another is
\* fetching and a third is receiving from its channel.
C18_Witness ==
    /\ sitemapMu
    /\ \E h, f, r \in Running :
           /\ h.pc = "commitLocked"
           /\ f.pc = "fetching"
           /\ r.pc = "range" /\ r.sent < Len(r.hrefs)

\* the URL's host is the domain itself or a subdomain of it, or, when
\* subdomains are not followed, the domain in any case of letters
InScope(u) ==
    /\ u.ok
    /\ IF FollowSubDomains
         THEN u.Host = c_domain \/ HasSuffix(u.Host, <<".">> \o c_domain)
         ELSE EqualFold(u.Host, c_domain)

\* C12: worker follows a link exactly when it parses and its host is the
\* domain or ends with "." and the domain (subdomains followed), or equals
\* the domain case-insensitively (subdomains not followed).
C12_ScopeIsAnchored ==
    probe.pc = "followed" => (probe.follow <=> InScope(Parse(probe.norm)))

\* the rules of the normalizer for an href found on the page base
NormalizeAgainst(href, base) ==
    LET u == IF href # <<>> /\ href[Len(href)] = "/" THEN SubSeq(href, 1, Len(href) - 1) ELSE href
        root == base.Scheme \o <<":", "/", "/">> \o base.Host
    IN  CASE u = <<>> -> root
          [] Len(u) >= 2 /\ SubSeq(u, 1, 2) = <<"/", "/">> -> base.Scheme \o <<":">> \o u
          [] Len(u) >= 1 /\ u[1] = "/" -> root \o u
          [] Len(u) >= 2 /\ SubSeq(u, 1, 2) = <<".", ".">> -> root \o <<"/">> \o u
          [] OTHER -> u

\* C13: the link worker gets from normalizeURL is what the rules give on the
\* crawler's base URL, and it never ends with "/".
C13_NormalizedIsCanonical ==
    probe.pc = "followed" =>
        /\ probe.norm = NormalizeAgainst(probe.href, url)
        /\ ~HasSuffix(probe.norm, <<"/">>)

\* C14: the link worker gets for an href is the href resolved against the
\* page the worker runs for.
C14_NormalizedAgainstPage ==
    probe.pc = "followed" => probe.norm = NormalizeAgainst(probe.href, Parse(probe.page))

\* C19: a link on the seed's own host is followed, and the domain is the
\* last two labels of the seed's host: a suffix of the host with at most
\* one ".", the whole host or what follows a ".".
C19_SeedHostInScope ==
    /\ HasSuffix(url.Host, c_domain)
    /\ Cardinality({i \in 1..Len(c_domain) : c_domain[i] = "."}) <= 1
    /\ \/ c_domain = url.Host
       \/ /\ url.Host[Len(url.Host) - Len(c_domain)] = "."
          /\ Cardinality({i \in 1..Len(c_domain) : c_domain[i] = "."}) = 1
    /\ probe.pc = "followed" =>
           ((Parse(probe.norm).ok /\ Parse(probe.norm).Host = url.Host) => probe.follow)

\* the nodes of a list of trees in the order of a depth-first walk
RECURSIVE PreOrder(_)
PreOrder(nodes) ==
    IF nodes = <<>> THEN <<>>
    ELSE <<Head(nodes)>> \o PreOrder(Head(nodes).Kids) \o PreOrder(Tail(nodes))

\* the positions of the href attributes of a node, and of those whose
\* trimmed value is neither empty nor starts with "#"
Hrefs(n) == {i \in 1..Len(n.Attr) : n.Attr[i].Key = "href"}
Usable(n) ==
    {i \in Hrefs(n) : LET v == TrimSpace(n.Attr[i].Val) IN v # <<>> /\ v[1] # "#"}

\* the least position of a set of positions that is not empty
Min(S) == CHOOSE i \in S : \A j \in S : i <= j

\* the sequences of ss one after the other
RECURSIVE Flatten(_)
Flatten(ss) == IF ss = <<>> THEN <<>> ELSE Head(ss) \o Flatten(Tail(ss))

\* what is emitted for the nodes ns when anchor n gives Pick(n)
Emitted(ns, Pick(_)) ==
    Flatten([i \in 1..Len(ns) |->
                IF ns[i].Type = "element" /\ ns[i].Data = "a" THEN Pick(ns[i]) ELSE <<>>])

\* for an anchor only its first href counts: it is emitted when usable
FirstHref(n) ==
    IF Hrefs(n) = {} \/ Min(Hrefs(n)) \notin Usable(n) THEN <<>>
    ELSE <<TrimSpace(n.Attr[Min(Hrefs(n))].Val)>>

\* for an anchor its first usable href is emitted
FirstUsableHref(n) ==
    IF Usable(n) = {} THEN <<>> ELSE <<TrimSpace(n.Attr[Min(Usable(n))].Val)>>

\* C20 as stated: the walker emits, in the order of a depth-first walk, for
\* every anchor its first href attribute, trimmed, unless that is empty or
\* starts with "#", and then nothing for the anchor.
C20_FirstHrefOnly ==
    probe.pc = "walked" => probe.hrefs = Emitted(PreOrder(probe.doc), FirstHref)

\* C20 as amended: the walker emits, in the order of a depth-first walk, for
\* every anchor the first of its href attributes whose trimmed value is
\* neither empty nor starts with "#", at most one per anchor, and nothing for
\* any other node.
C20_FirstUsableHref ==
    probe.pc = "walked" => probe.hrefs = Emitted(PreOrder(probe.doc), FirstUsableHref)

\* C20 witness: a document has been walked in which an anchor's first href
\* is empty and its second is not, and the walker has emitted the second and
\* the href of the anchor that follows.
C20_Witness ==
    /\ probe.pc = "walked"
    /\ Len(probe.hrefs) = 2
    /\ \E i \in 1..Len(PreOrder(probe.doc)) :
           LET n == PreOrder(probe.doc)[i]
           IN  /\ n.Type = "element" /\ n.Data = "a"
               /\ Cardinality(Hrefs(n)) = 2
               /\ Usable(n) = {2}
               /\ probe.hrefs[1] = n.Attr[2].Val

====
